---- MODULE Spec2Model ----
(***************************************************************************)
(* One run of demo.py (seclarityIO/demo_functionality): argument checks,   *)
(* input classification, conversion, upload, ingestion polling, summary    *)
(* request, action polling and report writing.  The remote service and the *)
(* converter are the environment: every HTTP response is drawn from a      *)
(* finite set of response shapes.                                          *)
(***************************************************************************)
EXTENDS Integers, Sequences, FiniteSets, TLC

\* ---------------------------------------------------------------- bounds
MaxPolls == 3          \* most GETs one poll loop issues in the model

\* ------------------------------------------------------------- constants
HTTP_OK == 200         \* requests.codes.ok
HTTP_ERR == 500        \* some status other than 200
NO_RESPONSE == 0       \* requests raised: no response object exists

Absent == "<absent>"   \* a key that is not in a JSON object
NonStr == "<number>"   \* a JSON value that is not a string
NoneVal == "None"      \* Python None

SampleIds == {"abc123", "xyz789"}

\* ------------------------------------------------------------- payloads
\* body[action]: the JSON string the service stores under the action name.
\* kind: "absent" (no such key), "null" (JSON null / Python None),
\*       "text" (a string that is not JSON), "json" (a string holding an
\*       object with the given fields).
MkPayload(k, v, c, s, d) ==
  [kind |-> k, verdict |-> v, confidence |-> c, summary |-> s, details |-> d]

NoPayload == MkPayload("absent", Absent, Absent, Absent, Absent)
NonePayload == MkPayload("null", Absent, Absent, Absent, Absent)
TextPayload == MkPayload("text", Absent, Absent, Absent, Absent)
FullPayload == MkPayload("json", "Benign", "High", "No threats found.", "...")

JsonPayloads ==
  { FullPayload,
    MkPayload("json", Absent, "High", "No threats found.", "..."),
    MkPayload("json", "Benign", Absent, "No threats found.", "..."),
    MkPayload("json", "Benign", "High", Absent, "..."),
    MkPayload("json", "Benign", "High", "No threats found.", Absent),
    MkPayload("json", "Benign", "High", "No threats found.", NonStr) }

Payloads == {NonePayload, TextPayload} \cup JsonPayloads

\* ------------------------------------------------------------ responses
\* code: HTTP status (NO_RESPONSE: the request raised); json: response.text
\* parses to a JSON object; error: the envelope's "error" key; bkind: the
\* envelope's "body" ("absent", "string", "dict"); the remaining fields are
\* keys of a dict body; extra: the dict has keys other than the named ones.
MkResp(code, json, error, bkind, sid, td, extra, st, pl) ==
  [code |-> code, json |-> json, error |-> error, bkind |-> bkind,
   sampleId |-> sid, trafficDate |-> td, extra |-> extra,
   status |-> st, payload |-> pl]

TransportError ==
  MkResp(NO_RESPONSE, FALSE, Absent, "absent", Absent, Absent, FALSE, Absent, NoPayload)
NotJson(code) ==
  MkResp(code, FALSE, Absent, "absent", Absent, Absent, FALSE, Absent, NoPayload)
NoBody(code, error) ==
  MkResp(code, TRUE, error, "absent", Absent, Absent, FALSE, Absent, NoPayload)
StringBody(code, error) ==
  MkResp(code, TRUE, error, "string", Absent, Absent, FALSE, Absent, NoPayload)
DictBody(code, error, sid, td, extra, st, pl) ==
  MkResp(code, TRUE, error, "dict", sid, td, extra, st, pl)

NoResponseYet == NotJson(HTTP_OK)

UploadResponses ==
  { TransportError, NotJson(HTTP_ERR), NoBody(HTTP_OK, "false"),
    StringBody(HTTP_OK, "true"), StringBody(HTTP_ERR, "true") }
  \cup { DictBody(HTTP_OK, "false", Absent, Absent, FALSE, Absent, NoPayload) }
  \cup { DictBody(c, e, s, Absent, FALSE, Absent, NoPayload) :
           c \in {HTTP_OK, HTTP_ERR}, e \in {"false", "true"}, s \in SampleIds }

MetadataResponses ==
  { TransportError, NotJson(HTTP_OK), NoBody(HTTP_OK, "false"),
    NoBody(HTTP_OK, "true"), StringBody(HTTP_OK, "false"),
    DictBody(HTTP_OK, Absent, Absent, "1699999999.0", TRUE, Absent, NoPayload),
    DictBody(HTTP_OK, "false", Absent, Absent, FALSE, Absent, NoPayload),
    DictBody(HTTP_OK, "false", Absent, Absent, TRUE, Absent, NoPayload),
    DictBody(HTTP_OK, "false", Absent, "", TRUE, Absent, NoPayload),
    DictBody(HTTP_OK, "false", Absent, "1699999999.0", TRUE, Absent, NoPayload),
    DictBody(HTTP_OK, "true", Absent, "1699999999.0", TRUE, Absent, NoPayload),
    DictBody(HTTP_ERR, "false", Absent, "1699999999.0", TRUE, Absent, NoPayload) }

ActionResponses ==
  { TransportError, NotJson(HTTP_OK), NoBody(HTTP_OK, "false"),
    StringBody(HTTP_OK, "true"),
    DictBody(HTTP_OK, "false", Absent, Absent, FALSE, Absent, NoPayload),
    DictBody(HTTP_OK, "false", Absent, Absent, FALSE, Absent, FullPayload),
    DictBody(HTTP_OK, "false", Absent, Absent, FALSE, "pending", NoPayload),
    DictBody(HTTP_OK, "false", Absent, Absent, FALSE, "pending", FullPayload),
    DictBody(HTTP_OK, "false", Absent, Absent, FALSE, "generated", NoPayload),
    DictBody(HTTP_ERR, "true", Absent, Absent, FALSE, "generated", FullPayload) }
  \cup { DictBody(HTTP_OK, "false", Absent, Absent, FALSE, "generated", p) :
           p \in Payloads }

PostResponses ==
  { TransportError, NotJson(HTTP_ERR), NoBody(HTTP_OK, Absent),
    StringBody(HTTP_OK, "true"), StringBody(HTTP_ERR, "true"),
    DictBody(HTTP_OK, "false", Absent, Absent, FALSE, "pending", NoPayload),
    DictBody(HTTP_ERR, "false", Absent, Absent, FALSE, "pending", NoPayload) }

\* ------------------------------------------------- content signatures
\* magic.from_file's description, cut into the pieces the two regular
\* expressions of __main__ tell apart.
Signatures ==
  { <<"p", "cap", " capture file", ", microsecond ts (little-endian) - version 2.4">>,
    <<"p", "cap", "ng", " capture file", " - version 1.0">>,
    <<"p", "cap", "-", "ng", " capture file", " - version 1.0">>,
    <<"cap", " capture file">>,
    <<"ASCII text">>,
    <<"JSON data">>,
    <<"ASCII text", ", with very long lines">>,
    <<"tcpdump", " capture file", " (little-endian) - version 2.4">>,
    <<"gzip compressed data", ", was \"capture.pcap\"">>,
    <<"PDF document", ", version 1.4">>,
    <<"JSON data", ", with very long lines">>,
    <<"p", "cap", "ng">>,
    <<"data">> }

At(sig, i) == IF i \in 1..Len(sig) THEN sig[i] ELSE Absent

\* re.match(r"^(p|)cap(|(|\-)ng) capture file", file_type)
MatchesPcap(sig) ==
  LET i == IF At(sig, 1) = "p" THEN 2 ELSE 1
      j == IF At(sig, i + 1) = "ng" THEN i + 2
           ELSE IF At(sig, i + 1) = "-" /\ At(sig, i + 2) = "ng" THEN i + 3
           ELSE i + 1
  IN  At(sig, i) = "cap" /\ At(sig, j) = " capture file"

\* re.match(r"^(ASCII text|JSON data)$", file_type)
MatchesZeek(sig) == sig = <<"ASCII text">> \/ sig = <<"JSON data">>

\* Detect with the else branch falling through to "Zeek"
Detect_ElseZeek(sig) == IF MatchesPcap(sig) THEN "PCAP" ELSE "Zeek"

\* __main__ 211-217: the classification; "unrecognized" is the else branch
Detect(sig) ==
  IF MatchesPcap(sig) THEN "PCAP"
  ELSE IF MatchesZeek(sig) THEN "Zeek"
  ELSE "unrecognized"

\* pathlib.PurePath(args.file).stem
Stem(file) == IF file = "capture.pcap" THEN "capture" ELSE "conn"

\* the suffix chosen without looking at the detected type
Suffix_AlwaysSf(det) == ".sf"

\* __main__ 224-238: the artifact the converter is expected to have written
Suffix(det) == IF det = "PCAP" THEN "_filtered.sf" ELSE ".sf"
Artifact(file, det) == <<Stem(file), Suffix(det)>>

\* ------------------------------------------------------- pure functions
\* had_error: "True", "False", or "raise" (json.loads fails, or the envelope
\* lacks "error", or it lacks the "body" that line 42 prints)
had_error(r) ==
  IF r.code # HTTP_OK THEN "True"
  ELSE IF ~r.json THEN "raise"
  ELSE IF r.error = Absent THEN "raise"
  ELSE IF r.error = "true"
         THEN (IF r.bkind = "absent" THEN "raise" ELSE "True")
  ELSE "False"

\* len(result_json["body"]) == 0 for a dict body
EmptyDict(r) ==
  /\ r.sampleId = Absent /\ r.trafficDate = Absent /\ ~r.extra
  /\ r.status = Absent /\ r.payload.kind = "absent"

\* get_private_sample_metadata without the len(...) == 0 test of line 68
get_private_sample_metadata_NoEmptyTest(r) ==
  IF r.code = NO_RESPONSE THEN "raise"
  ELSE IF had_error(r) = "raise" THEN "raise"
  ELSE IF had_error(r) = "True" THEN NoneVal
  ELSE IF r.bkind = "absent" THEN "raise"
  ELSE "metadata"

\* get_private_sample_metadata: "raise", "None" or "metadata"
get_private_sample_metadata(r) ==
  IF r.code = NO_RESPONSE THEN "raise"
  ELSE IF had_error(r) = "raise" THEN "raise"
  ELSE IF had_error(r) = "True" THEN NoneVal
  ELSE IF r.bkind = "absent" THEN "raise"
  ELSE IF r.bkind = "dict" /\ EmptyDict(r) THEN NoneVal
  ELSE "metadata"

\* is_sample_processed without the trafficDate != "" test of line 79
is_sample_processed_AnyDate(r) ==
  IF r.code = NO_RESPONSE \/ had_error(r) = "raise" THEN "raise"
  ELSE IF had_error(r) = "True" THEN "False"
  ELSE IF r.bkind = "absent" THEN "raise"
  ELSE IF r.bkind = "dict" /\ EmptyDict(r) THEN "False"
  ELSE IF r.bkind = "string" \/ r.trafficDate = Absent THEN "raise"
  ELSE "True"

\* is_sample_processed: "raise", "True" or "False"
is_sample_processed(r) ==
  LET sample_metadata == get_private_sample_metadata(r)
  IN  IF sample_metadata = "raise" THEN "raise"
      ELSE IF sample_metadata = NoneVal THEN "False"
      ELSE IF r.bkind = "string" THEN "raise"
      ELSE IF r.trafficDate = Absent THEN "raise"
      ELSE IF r.trafficDate # "" THEN "True"
      ELSE "False"

\* upload_sample 146-151: the sample ID read from the response, or None
UploadResult(r) ==
  IF r.json /\ r.bkind = "dict" /\ r.sampleId # Absent THEN r.sampleId
  ELSE NoneVal

\* summarize_sample 117-124: TRUE when the function returns None at once
SummaryRequestFailed(r) ==
  \/ ~r.json
  \/ r.error = Absent
  \/ r.error = "true"

\* result["body"][action] can be read (no exception)
HasPayload(r) == r.json /\ r.bkind = "dict" /\ r.payload.kind # "absent"

\* result["body"]["status"] can be read (no exception)
HasStatus(r) == r.json /\ r.bkind = "dict" /\ r.status # Absent

\* wait_for_sample_action 101-109, one iteration: what the response does to
\* (the event, data).  "set" tells whether action_checking_timer.set() ran.
ActionIteration(r, old) ==
  IF HasStatus(r) /\ r.status = "generated"
    THEN IF HasPayload(r)
           THEN [set |-> TRUE, data |-> r.payload]
           ELSE [set |-> TRUE, data |-> old]
    ELSE [set |-> FALSE, data |-> old]

\* json.loads(summary) succeeds
Parses(p) == p.kind = "json"

FieldNames == <<"verdict", "confidence", "summary", "details">>
Labels == <<"Verdict", "Confidence", "Summary", "Details">>
Field(p, n) ==
  IF n = "verdict" THEN p.verdict
  ELSE IF n = "confidence" THEN p.confidence
  ELSE IF n = "summary" THEN p.summary
  ELSE p.details

\* the rendering test with the Details field forgotten
Renders_NoDetails(p) == \A i \in 1..3 : Field(p, FieldNames[i]) \notin {Absent, NonStr}

\* __main__ 268-272 evaluates without KeyError / TypeError
Renders(p) == \A i \in 1..4 : Field(p, FieldNames[i]) \notin {Absent, NonStr}

\* __main__ 268-272: the text written, as its labelled sections in order
Report(p) == [i \in 1..4 |-> <<Labels[i], Field(p, FieldNames[i])>>]

\* __main__ 194-196: json.dump(json.loads(data), out, indent=4)
JsonDump(p) ==
  LET present == {i \in 1..4 : Field(p, FieldNames[i]) # Absent}
      RECURSIVE Build(_)
      Build(i) == IF i > 4 THEN << >>
                  ELSE IF i \in present
                         THEN << <<FieldNames[i], Field(p, FieldNames[i])>> >> \o Build(i + 1)
                         ELSE Build(i + 1)
  IN  Build(1)

\* ------------------------------------------------------------- state
VARIABLES
  pc,          \* where the run is
  args,        \* the parsed command line
  file_type,   \* magic.from_file's answer (<< >> before it is read)
  detected,    \* "PCAP", "Zeek" or None
  sample_id,   \* private_sample_id (None before the upload returns one)
  calls,       \* every outward effect so far, in order
  metaResps,   \* the responses to the metadata GETs, in order
  lastResp,    \* the latest HTTP response
  polls,       \* GETs issued by the running wait_for_sample_action
  data,        \* data / summary: the payload in hand (NonePayload is None)
  exitCode,    \* -1 while running, then the process's exit status
  crashed,     \* the run ended by an exception nobody caught
  outFile      \* the output file

vars == <<pc, args, file_type, detected, sample_id, calls, metaResps,
          lastResp, polls, data, exitCode, crashed, outFile>>

Call(op, target, id, tag, file) ==
  [op |-> op, target |-> target, id |-> id, tag |-> tag, file |-> file]

Wait == Call("WAIT", "2.0", "", "", << >>)
HttpGet(target, id) == Call("GET", target, id, "", << >>)
HttpPost(target, id) == Call("POST", target, id, "", << >>)
UploadPost(file) == Call("POST", "upload", "", "secflow", file)
OpenOutput == Call("OPEN", "output", "", "w", << >>)

ArgSpace ==
  [action : {"", "e2e", "categorization", "summary"},
   file : {"", "capture.pcap"},
   dnsfile : BOOLEAN,
   sampleid : {"", "abc123"}]

Untouched == [state |-> "untouched", format |-> "", content |-> << >>]

Init ==
  /\ pc = "start"
  /\ args \in ArgSpace
  /\ file_type = << >>
  /\ detected = NoneVal
  /\ sample_id = NoneVal
  /\ calls = << >>
  /\ metaResps = << >>
  /\ lastResp = NoResponseYet
  /\ polls = 0
  /\ data = NonePayload
  /\ exitCode = -1
  /\ crashed = FALSE
  /\ outFile = Untouched

\* sys.exit(code)
Exit(code) == pc' = "done" /\ exitCode' = code /\ crashed' = FALSE

\* an exception reaches the top level: traceback, exit status 1
Crash == pc' = "done" /\ exitCode' = 1 /\ crashed' = TRUE

Goto(l) == pc' = l /\ UNCHANGED <<exitCode, crashed>>

\* the argument checks with the --sampleid test of lines 189-191 left out
ParseArgs_NoSampleIdTest ==
  /\ pc = "start"
  /\ IF args.action = "" THEN Exit(1)
     ELSE IF args.file = "" /\ args.action = "e2e" THEN Exit(1)
     ELSE IF args.action \in {"categorization", "summary"} THEN Goto("existing_get")
     ELSE Goto("classify")
  /\ UNCHANGED <<args, file_type, detected, sample_id, calls, metaResps,
                 lastResp, polls, data, outFile>>

\* __main__ 181-191
ParseArgs ==
  /\ pc = "start"
  /\ IF args.action = "" THEN Exit(1)
     ELSE IF args.file = "" /\ args.action = "e2e" THEN Exit(1)
     ELSE IF args.action \in {"categorization", "summary"}
            THEN IF args.sampleid = "" THEN Exit(1) ELSE Goto("existing_get")
     ELSE Goto("classify")
  /\ UNCHANGED <<args, file_type, detected, sample_id, calls, metaResps,
                 lastResp, polls, data, outFile>>

\* __main__ 209-220
Classify ==
  /\ pc = "classify"
  /\ \E sig \in Signatures :
       /\ file_type' = sig
       /\ IF Detect(sig) = "unrecognized"
            THEN UNCHANGED detected /\ Exit(1)
            ELSE detected' = Detect(sig) /\ Goto("convert")
  /\ UNCHANGED <<args, sample_id, calls, metaResps, lastResp, polls, data, outFile>>

\* the converter call __main__ makes for the detected type
ConvertCall ==
  IF detected = "PCAP"
    THEN Call("CONVERT", "convert_pcap", "", "", Artifact(args.file, detected))
    ELSE Call("CONVERT", "convert_zeek", "", IF args.dnsfile THEN "dns" ELSE "",
              Artifact(args.file, detected))

\* output_directory.mkdir() at __main__ 223
MkdirCall == Call("MKDIR", "output_directory", "", "", << >>)

\* __main__ 223-244: mkdir, convert, sizes.  outcome: the directory named for
\* this second already exists ("exists": mkdir raises FileExistsError and the
\* converter is never called), the converter wrote the artifact ("ok"),
\* raised ("raise"), or left no bytes at the expected path ("empty": getsize /
\* the division at line 240 raises)
Convert ==
  /\ pc = "convert"
  /\ \E outcome \in {"exists", "ok", "raise", "empty"} :
       /\ calls' = IF outcome = "exists"
                     THEN Append(calls, MkdirCall)
                     ELSE calls \o <<MkdirCall, ConvertCall>>
       /\ IF outcome = "ok" THEN Goto("upload") ELSE Crash
  /\ UNCHANGED <<args, file_type, detected, sample_id, metaResps, lastResp,
                 polls, data, outFile>>

\* upload_sample 129-151 and __main__ 248-251
UploadSample ==
  /\ pc = "upload"
  /\ \E r \in UploadResponses :
       /\ calls' = Append(calls, UploadPost(Artifact(args.file, detected)))
       /\ lastResp' = r
       /\ IF r.code = NO_RESPONSE
            THEN UNCHANGED sample_id /\ Crash
            ELSE /\ sample_id' = UploadResult(r)
                 /\ IF UploadResult(r) = NoneVal THEN Exit(1) ELSE Goto("ingest")
  /\ UNCHANGED <<args, file_type, detected, metaResps, polls, data, outFile>>

\* the ingestion loop asking first and sleeping afterwards
IngestPoll_GetThenWait ==
  /\ pc = "ingest"
  /\ Len(metaResps) < MaxPolls
  /\ \E r \in MetadataResponses :
       /\ calls' = IF is_sample_processed(r) = "False"
                     THEN calls \o <<HttpGet("sample", sample_id), Wait>>
                     ELSE Append(calls, HttpGet("sample", sample_id))
       /\ metaResps' = Append(metaResps, r)
       /\ lastResp' = r
       /\ IF is_sample_processed(r) = "raise" THEN Crash
          ELSE IF is_sample_processed(r) = "True" THEN Goto("summarize")
          ELSE Goto("ingest")
  /\ UNCHANGED <<args, file_type, detected, sample_id, polls, data, outFile>>

\* wait_for_sample_processing 84-91, one turn of the loop: the 2 s wait, the
\* GET of get_private_sample_metadata, the test of is_sample_processed
IngestPoll ==
  /\ pc = "ingest"
  /\ Len(metaResps) < MaxPolls
  /\ \E r \in MetadataResponses :
       /\ calls' = calls \o <<Wait, HttpGet("sample", sample_id)>>
       /\ metaResps' = Append(metaResps, r)
       /\ lastResp' = r
       /\ IF is_sample_processed(r) = "raise" THEN Crash
          ELSE IF is_sample_processed(r) = "True" THEN Goto("summarize")
          ELSE Goto("ingest")
  /\ UNCHANGED <<args, file_type, detected, sample_id, polls, data, outFile>>

\* summarize_sample 113-124 and, when it returns None, __main__ 262-264
SummarizePost ==
  /\ pc = "summarize"
  /\ \E r \in PostResponses :
       /\ calls' = Append(calls, HttpPost("summary", sample_id))
       /\ lastResp' = r
       /\ IF r.code = NO_RESPONSE THEN Crash
          ELSE IF SummaryRequestFailed(r) THEN Exit(1)
          ELSE Goto("action_poll")
  /\ polls' = 0
  /\ data' = NonePayload
  /\ UNCHANGED <<args, file_type, detected, sample_id, metaResps, outFile>>

\* get_data_for_existing_sample requesting the action whatever the GET said
GetExisting_AlwaysPost ==
  /\ pc = "existing_get"
  /\ \E r \in ActionResponses :
       /\ calls' = Append(calls, HttpGet(args.action, args.sampleid))
       /\ lastResp' = r
       /\ IF r.code = NO_RESPONSE THEN Crash ELSE Goto("existing_post")
  /\ UNCHANGED <<args, file_type, detected, sample_id, metaResps, polls, data, outFile>>

\* get_data_for_existing_sample 156-163: the first GET
GetExisting ==
  /\ pc = "existing_get"
  /\ \E r \in ActionResponses :
       /\ calls' = Append(calls, HttpGet(args.action, args.sampleid))
       /\ lastResp' = r
       /\ IF r.code = NO_RESPONSE THEN UNCHANGED data /\ Crash
          ELSE IF HasPayload(r) THEN data' = r.payload /\ Goto("write_json")
          ELSE UNCHANGED data /\ Goto("existing_post")
  /\ UNCHANGED <<args, file_type, detected, sample_id, metaResps, polls, outFile>>

\* get_data_for_existing_sample 163-165: the POST of the except branch
PostExisting ==
  /\ pc = "existing_post"
  /\ \E r \in PostResponses :
       /\ calls' = Append(calls, HttpPost(args.action, args.sampleid))
       /\ lastResp' = r
       /\ IF r.code = NO_RESPONSE THEN Crash ELSE Goto("action_poll")
  /\ polls' = 0
  /\ data' = NonePayload
  /\ UNCHANGED <<args, file_type, detected, sample_id, metaResps, outFile>>

\* the url wait_for_sample_action is called with
PollTarget == IF args.action = "e2e" THEN "summary" ELSE args.action
\* the poll url built from --sampleid instead of the uploaded sample's ID
PollId_FromArgs == args.sampleid

PollId == IF args.action = "e2e" THEN sample_id ELSE args.sampleid

\* where wait_for_sample_action's caller goes on
AfterPoll == IF args.action = "e2e" THEN "report" ELSE "write_json"

\* wait_for_sample_action 94-110, one turn of the loop: the 2 s wait, the GET,
\* the try block; once the event is set the next wait(2.0) returns True at
\* once and the function returns data
ActionPoll ==
  /\ pc = "action_poll"
  /\ polls < MaxPolls
  /\ \E r \in ActionResponses :
       /\ calls' = calls \o <<Wait, HttpGet(PollTarget, PollId)>>
       /\ lastResp' = r
       /\ polls' = polls + 1
       /\ IF r.code = NO_RESPONSE THEN UNCHANGED data /\ Crash
          ELSE /\ data' = ActionIteration(r, data).data
               /\ IF ActionIteration(r, data).set THEN Goto(AfterPoll)
                  ELSE Goto("action_poll")
  /\ UNCHANGED <<args, file_type, detected, sample_id, metaResps, outFile>>

\* what open(output_filename, "w") followed by the write can leave behind:
\*   "nofile"  - open raises (the name is a directory, the place is not
\*               writable): nothing is created or changed
\*   "written" - the whole text is in the file
\*   "empty"   - the file was created / truncated and the write raised before
\*               a byte reached it (an unencodable character, a full disk)
\*   "partial" - the write or the close raised after part of the text was
\*               written (full disk, file size limit)
WriteOutcomes == {"nofile", "written", "empty", "partial"}

\* the file after a write that raised: truncated, holding at most a part of
\* the text (content is not tracked for it)
Truncated(outcome, fmt) ==
  [state |-> outcome, format |-> IF outcome = "empty" THEN "" ELSE fmt,
   content |-> << >>]

\* __main__ 262-276.  Every exception between 266 and 272 reaches the bare
\* except at 273: exit 1, no traceback.  The text is built from the four
\* fields after the file is open, so a payload that does not render leaves
\* the file empty.
WriteReport ==
  /\ pc = "report"
  /\ IF data = NonePayload \/ ~Parses(data)
       THEN UNCHANGED <<calls, outFile>> /\ Exit(1)
       ELSE /\ calls' = Append(calls, OpenOutput)
            /\ \E outcome \in WriteOutcomes :
                 IF outcome = "nofile"
                   THEN UNCHANGED outFile /\ Exit(1)
                 ELSE IF ~Renders(data)
                   THEN outFile' = Truncated("empty", "markdown") /\ Exit(1)
                 ELSE IF outcome = "written"
                   THEN /\ outFile' = [state |-> "written", format |-> "markdown",
                                       content |-> Report(data)]
                        /\ Exit(0)
                   ELSE outFile' = Truncated(outcome, "markdown") /\ Exit(1)
  /\ UNCHANGED <<args, file_type, detected, sample_id, metaResps, lastResp, polls, data>>

\* __main__ 193-201.  Every exception between 194 and 196 reaches the bare
\* except at 197: exit 1, no traceback.
WriteJson ==
  /\ pc = "write_json"
  /\ IF ~Parses(data)
       THEN UNCHANGED <<calls, outFile>> /\ Exit(1)
       ELSE /\ calls' = Append(calls, OpenOutput)
            /\ \E outcome \in WriteOutcomes :
                 IF outcome = "nofile"
                   THEN UNCHANGED outFile /\ Exit(1)
                 ELSE IF outcome = "written"
                   THEN /\ outFile' = [state |-> "written", format |-> "json indent=4",
                                       content |-> JsonDump(data)]
                        /\ Exit(0)
                   ELSE outFile' = Truncated(outcome, "json indent=4") /\ Exit(1)
  /\ UNCHANGED <<args, file_type, detected, sample_id, metaResps, lastResp, polls, data>>

Next ==
  \/ ParseArgs
  \/ Classify
  \/ Convert
  \/ UploadSample
  \/ IngestPoll
  \/ SummarizePost
  \/ GetExisting
  \/ PostExisting
  \/ ActionPoll
  \/ WriteReport
  \/ WriteJson

Spec == Init /\ [][Next]_vars

\* ------------------------------------------------ vocabulary of the claims
IsE2E == args.action = "e2e"
IsByID == args.action \in {"categorization", "summary"}

IsNetwork(c) == c.op \in {"GET", "POST"}
IsUploadPost(c) == c.op = "POST" /\ c.target = "upload"
IsMetaGet(c) == c.op = "GET" /\ c.target = "sample"
IsSummaryPost(c) == c.op = "POST" /\ c.target = "summary"
IsSummaryGet(c) == c.op = "GET" /\ c.target = "summary"
IsOpen(c) == c.op = "OPEN"

Idx(P(_)) == {i \in DOMAIN calls : P(calls[i])}
Count(P(_)) == Cardinality(Idx(P))
LastCall == IF calls = << >> THEN Wait ELSE calls[Len(calls)]

\* the position in calls of the k-th metadata GET
MetaGetPos(k) ==
  CHOOSE j \in Idx(IsMetaGet) : Cardinality({i \in Idx(IsMetaGet) : i <= j}) = k

\* the envelope says the request failed: a non-200 status, or error = true
FailureEnvelope(r) ==
  /\ r.code # NO_RESPONSE
  /\ (r.code # HTTP_OK \/ (r.json /\ r.error = "true"))

\* {error: false, body: {}} with status 200
EmptyBodyResp(r) ==
  r.code = HTTP_OK /\ r.json /\ r.error = "false" /\ r.bkind = "dict" /\ EmptyDict(r)

\* a non-empty body whose trafficDate is non-empty
BodyReady(r) ==
  r.json /\ r.bkind = "dict" /\ ~EmptyDict(r) /\ r.trafficDate \notin {Absent, ""}

\* the ingestion success answer: {error: false, body: {trafficDate: "...", ...}}
ReadyResp(r) == r.code = HTTP_OK /\ r.error = "false" /\ BodyReady(r)

\* ---------------------------------------------------------------- C1
\* C1 (as claimed): in an e2e run, when the upload response has a non-200
\* status or error = true, whatever its body holds, upload_sample returns
\* None, the run exits with code 1 and nothing more is sent.
C1_UploadFailureAborts ==
  [][ (pc = "upload" /\ pc' # "upload" /\ FailureEnvelope(lastResp'))
        => (sample_id' = NoneVal /\ pc' = "done" /\ exitCode' = 1) ]_vars

\* ---------------------------------------------------------------- C2
\* C2: in an e2e run every summary POST, summary GET and open of the output
\* file comes after a metadata GET whose response had a non-empty body with a
\* non-empty trafficDate, and every metadata GET comes after an upload POST
\* that returned a sample ID.
C2_IngestionGatesSummary ==
  IsE2E =>
    /\ \A j \in DOMAIN calls :
         (IsSummaryPost(calls[j]) \/ IsSummaryGet(calls[j]) \/ IsOpen(calls[j]))
           => \E k \in DOMAIN metaResps :
                BodyReady(metaResps[k]) /\ MetaGetPos(k) < j
    /\ \A j \in Idx(IsMetaGet) :
         /\ sample_id # NoneVal
         /\ \E i \in Idx(IsUploadPost) : i < j

C2_Witness ==
  /\ IsE2E /\ pc = "done" /\ exitCode = 0 /\ outFile.state = "written"
  /\ Len(metaResps) >= 2
  /\ Count(IsSummaryGet) >= 2

\* ---------------------------------------------------------------- C3
\* C3: when the first k metadata GETs are answered with an empty body and
\* the (k+1)-th with a non-empty trafficDate, wait_for_sample_processing
\* has issued exactly k+1 GETs and has returned; while every answer so far
\* had an empty body it has not returned.
C3_IngestPollCount ==
  LET n == Len(metaResps)
      inLoop == pc = "ingest"
      leftByException == pc = "done" /\ IsMetaGet(LastCall)
  IN  /\ Count(IsMetaGet) = n
      /\ \A k \in 0..(n - 1) :
           ( /\ \A i \in 1..k : EmptyBodyResp(metaResps[i])
             /\ ReadyResp(metaResps[k + 1]) )
           => (n = k + 1 /\ ~inLoop /\ ~leftByException)
      /\ (n > 0 /\ \A i \in 1..n : EmptyBodyResp(metaResps[i])) => inLoop

C3_Witness ==
  /\ Len(metaResps) = 3
  /\ EmptyBodyResp(metaResps[1]) /\ EmptyBodyResp(metaResps[2])
  /\ ReadyResp(metaResps[3])
  /\ pc = "summarize"

\* ---------------------------------------------------------------- C4
\* a step of wait_for_sample_action that received a response
ActionPollStep == pc = "action_poll" /\ polls' = polls + 1
\* ... and after which the function has returned to its caller
ActionPollReturns == ActionPollStep /\ pc' # "action_poll" /\ ~crashed'

\* C4 (as claimed): wait_for_sample_action returns only on a response whose
\* body.status is "generated", and what it returns is that response's
\* body[action].
C4_ReturnsGeneratedPayload ==
  [][ ActionPollReturns
        => /\ HasStatus(lastResp') /\ lastResp'.status = "generated"
           /\ HasPayload(lastResp')
           /\ data' = lastResp'.payload ]_vars

\* ---------------------------------------------------------------- C5
\* not valid JSON, or no body, no body.status or no body[action]
Malformed(r) ==
  /\ r.code # NO_RESPONSE
  /\ (~r.json \/ r.bkind # "dict" \/ r.status = Absent \/ r.payload.kind = "absent")

\* C5 (as claimed): a malformed response in wait_for_sample_action is a
\* retry-able miss: the loop neither returns nor aborts, and goes on to the
\* next GET.
C5_MalformedIsRetried ==
  [][ (ActionPollStep /\ Malformed(lastResp'))
        => (pc' = "action_poll" /\ exitCode' = -1) ]_vars

\* ---------------------------------------------------------------- C6
\* the calls the step adds
NewCalls == SubSeq(calls', Len(calls) + 1, Len(calls'))

\* C6: in one get_data_for_existing_sample the first request is the GET; a
\* POST is sent only as the second request and only when that GET's response
\* held no body[action]; every request after the POST is a polling GET of the
\* same url.
C6_LazyProvisioning ==
  [][ IsByID =>
        \A i \in DOMAIN NewCalls :
          /\ (calls = << >> /\ i = 1)
               => NewCalls[i] = HttpGet(args.action, args.sampleid)
          /\ NewCalls[i].op = "POST"
               => /\ calls = <<HttpGet(args.action, args.sampleid)>>
                  /\ ~HasPayload(lastResp)
          /\ (IsNetwork(NewCalls[i]) /\ \E j \in DOMAIN calls : calls[j].op = "POST")
               => NewCalls[i] = HttpGet(args.action, args.sampleid) ]_vars

C6_Witness ==
  /\ IsByID /\ pc = "done" /\ exitCode = 0
  /\ Len(calls) >= 6
  /\ calls[2] = HttpPost(args.action, args.sampleid)
  /\ Cardinality({j \in DOMAIN calls : calls[j].op = "GET"}) = 3

\* ---------------------------------------------------------------- C7
\* C7 (as claimed): in an e2e run, when the summary-request POST answers with
\* a non-200 status or error = true, summarize_sample returns None without a
\* polling GET and the run exits with code 1.
C7_SummaryPostFailureAborts ==
  [][ (pc = "summarize" /\ pc' # "summarize" /\ FailureEnvelope(lastResp'))
        => (pc' = "done" /\ exitCode' = 1) ]_vars

\* ---------------------------------------------------------------- C8
\* the signature names a packet capture (also a gzip-wrapped one)
IsCaptureSignature(sig) ==
  \E i \in DOMAIN sig : sig[i] \in {" capture file", ", was \"capture.pcap\""}
\* the signature names ASCII text or JSON data
IsTextSignature(sig) == At(sig, 1) \in {"ASCII text", "JSON data"}

\* C8: in an e2e run whose input is neither a packet capture nor ASCII text /
\* JSON data, the run has exited with code 1 as soon as the signature is
\* read: no directory, no converter call, no network call, no output file.
C8_UnrecognizedAbortsEarly ==
  (file_type # << >> /\ ~IsCaptureSignature(file_type) /\ ~IsTextSignature(file_type))
    => /\ pc = "done" /\ exitCode = 1 /\ ~crashed
       /\ calls = << >>
       /\ outFile = Untouched

C8_Witness ==
  file_type = <<"PDF document", ", version 1.4">> /\ pc = "done" /\ exitCode = 1

\* ---------------------------------------------------------------- C9
AllFourFields(p) == \A i \in 1..4 : Field(p, FieldNames[i]) # Absent

\* C9: an e2e run exits 0 only with a summary payload that parses and has
\* verdict, confidence, summary and details, and the file then holds the
\* sections Verdict, Confidence, Summary, Details in that order with those
\* values; with an unparseable payload or a field missing it exits 1.
C9_ReportWriting ==
  (IsE2E /\ pc = "done") =>
    /\ exitCode = 0 =>
         /\ Parses(data) /\ AllFourFields(data)
         /\ outFile.state = "written"
         /\ Len(outFile.content) = 4
         /\ \A i \in 1..4 :
              outFile.content[i] = <<Labels[i], Field(data, FieldNames[i])>>
    /\ (~Parses(data) \/ ~AllFourFields(data)) => exitCode = 1

C9_Witness ==
  /\ IsE2E /\ pc = "done" /\ exitCode = 0
  /\ outFile.content[1] = <<"Verdict", "Benign">>
  /\ outFile.content[4] = <<"Details", "...">>

\* a field of the summary is missing and the run got as far as the report
C9_WitnessMissing ==
  /\ IsE2E /\ pc = "done" /\ exitCode = 1
  /\ Parses(data) /\ ~AllFourFields(data)

\* --------------------------------------------------------------- C10
\* {error: false, body: {sampleId: s}}
UploadSuccessEnvelope(r) ==
  r.json /\ r.error = "false" /\ r.bkind = "dict" /\ r.sampleId # Absent

\* C10: an e2e run sends at most one upload POST, tagged "secflow"; on
\* {error: false, body: {sampleId: s}} upload_sample returns s; every later
\* metadata GET, summary POST and summary GET carries that s.
C10_UploadedIdIsUsed ==
  IsE2E =>
    /\ Count(IsUploadPost) <= 1
    /\ \A j \in Idx(IsUploadPost) : calls[j].tag = "secflow"
    /\ (calls # << >> /\ IsUploadPost(LastCall) /\ UploadSuccessEnvelope(lastResp))
         => (sample_id = lastResp.sampleId /\ pc = "ingest")
    /\ pc \in {"ingest", "summarize", "action_poll", "report"} => Count(IsUploadPost) = 1
    /\ \A j \in DOMAIN calls :
         (IsMetaGet(calls[j]) \/ IsSummaryPost(calls[j]) \/ IsSummaryGet(calls[j]))
           => (calls[j].id = sample_id /\ sample_id \in SampleIds)

C10_Witness ==
  /\ IsE2E /\ pc = "done" /\ exitCode = 0
  /\ sample_id = "xyz789" /\ args.sampleid = "abc123"
  /\ Count(IsMetaGet) >= 1 /\ Count(IsSummaryPost) = 1 /\ Count(IsSummaryGet) >= 1

\* --------------------------------------------------------------- C11
\* no --action, e2e without --file, or a by-ID action without --sampleid
MissingArgument ==
  \/ args.action = ""
  \/ args.action = "e2e" /\ args.file = ""
  \/ IsByID /\ args.sampleid = ""

\* C11: a run with a required argument missing does nothing but exit with
\* code 1: no network call, no converter call, no directory, no output file.
C11_ArgumentValidation ==
  MissingArgument =>
    \/ pc = "start" /\ exitCode = -1 /\ calls = << >> /\ outFile = Untouched
    \/ pc = "done" /\ exitCode = 1 /\ ~crashed /\ calls = << >> /\ outFile = Untouched

C11_Witness ==
  /\ args.action = "summary" /\ args.sampleid = "" /\ args.file # ""
  /\ pc = "done" /\ exitCode = 1

\* --------------------------------------------------------------- C12
\* a step of wait_for_sample_processing that received a response
IngestStep ==
  pc = "ingest" /\ Len(metaResps') = Len(metaResps) + 1 /\ lastResp'.code # NO_RESPONSE

\* the answers the claim counts as "not ready yet": an empty body, a non-200
\* status, an error = true envelope, a non-empty body without a non-empty
\* trafficDate
NotReadyAnswer(r) ==
  \/ EmptyBodyResp(r)
  \/ r.code # HTTP_OK
  \/ r.json /\ r.error = "true"
  \/ r.json /\ r.bkind = "dict" /\ ~EmptyDict(r) /\ r.trafficDate \in {Absent, ""}

\* C12 (as claimed): ingestion polling never fails the run: after a
\* not-ready answer the loop is still running (another GET follows), and the
\* loop returns only on an answer with a non-empty trafficDate.
C12_IngestionNeverFails ==
  [][ IngestStep =>
        /\ NotReadyAnswer(lastResp') => (pc' = "ingest" /\ exitCode' = -1)
        /\ pc' = "summarize" => BodyReady(lastResp') ]_vars

\* --------------------------------------------------------------- C13
\* the action poll's success predicate: body.status is "generated"
GeneratedAnswer(r) == HasStatus(r) /\ r.status = "generated"

\* C13 (as claimed), in the form one step decides: in both poll loops an
\* answer that satisfies the success predicate makes the loop return, and
\* any other answer (not ready, or malformed) leaves the loop running, so
\* that only success ends it and the GETs go on without a maximum.
C13_PollLoopTermination ==
  [][ /\ IngestStep =>
           IF ReadyResp(lastResp') THEN pc' = "summarize"
           ELSE pc' = "ingest" /\ exitCode' = -1
      /\ (ActionPollStep /\ lastResp'.code # NO_RESPONSE) =>
           IF GeneratedAnswer(lastResp') THEN pc' = AfterPoll
           ELSE pc' = "action_poll" /\ exitCode' = -1 ]_vars

\* --------------------------------------------------------------- C14
\* calls[j] is a GET issued by one of the two poll loops
IsPollGet(j) ==
  /\ j \in DOMAIN calls
  /\ \/ IsE2E /\ (IsMetaGet(calls[j]) \/ IsSummaryGet(calls[j]))
     \/ IsByID /\ calls[j].op = "GET" /\ j > 1

\* calls[j] is the first GET of its poll loop
IsFirstPollGet(j) ==
  /\ IsPollGet(j)
  /\ \A i \in 1..(j - 1) : IsPollGet(i) => calls[i].target # calls[j].target

\* the 2 s waits before calls[j]
WaitsBefore(j) == Cardinality({i \in 1..(j - 1) : calls[i] = Wait})

\* the metadata GETs among calls[1..j]
MetaGetsUpTo(j) == Cardinality({i \in 1..j : IsMetaGet(calls[i])})

\* C14 (as claimed): the first request of a poll loop has no wait before it
\* (the k-th metadata GET comes after k-1 waits: ~0 s, ~2 s, ~4 s), one 2 s
\* wait lies between two consecutive requests, and no wait follows the
\* request that was answered with success.
C14_FirstRequestImmediate ==
  /\ \A j \in DOMAIN calls :
       /\ IsFirstPollGet(j) => calls[j - 1] # Wait
       /\ (IsPollGet(j) /\ ~IsFirstPollGet(j)) => calls[j - 1] = Wait
  /\ IsE2E => \A j \in Idx(IsMetaGet) : WaitsBefore(j) = MetaGetsUpTo(j) - 1
  /\ (calls # << >> /\ pc \notin {"ingest", "action_poll"}) => LastCall # Wait

\* C14 (amended): every request of a poll loop, the first included, comes
\* right after exactly one 2 s wait (the k-th metadata GET comes after k
\* waits: ~2 s, ~4 s, ~6 s); every wait is followed at once by a request of
\* the loop, so no wait follows the request that was answered with success.
C14_WaitBeforeEveryRequest ==
  /\ \A j \in DOMAIN calls :
       /\ IsPollGet(j) =>
            /\ j >= 2 /\ calls[j - 1] = Wait
            /\ j >= 3 => calls[j - 2] # Wait
       /\ calls[j] = Wait => IsPollGet(j + 1)
  /\ IsE2E => \A j \in Idx(IsMetaGet) : WaitsBefore(j) = MetaGetsUpTo(j)

C14_Witness ==
  /\ IsE2E /\ pc = "done" /\ exitCode = 0
  /\ Count(IsMetaGet) = 3 /\ Count(IsSummaryGet) = 2
  /\ WaitsBefore(Len(calls)) = 5

\* --------------------------------------------------------------- C15
\* the names the capture formats go by: pcap / cap, pcapng / capng,
\* pcap-ng / cap-ng, each followed by " capture file"
PcapNames ==
  { <<"p", "cap">>, <<"cap">>, <<"p", "cap", "ng">>, <<"cap", "ng">>,
    <<"p", "cap", "-", "ng">>, <<"cap", "-", "ng">> }
IsPcapNamed(sig) ==
  \E n \in PcapNames :
    /\ Len(sig) > Len(n)
    /\ SubSeq(sig, 1, Len(n)) = n
    /\ sig[Len(n) + 1] = " capture file"
IsGzipWrapped(sig) == At(sig, 1) = "gzip compressed data"
IsPlainText(sig) == sig \in {<<"ASCII text">>, <<"JSON data">>}

\* the class the claim gives a signature, gzip-wrapped captures with PCAP
ClaimedClass(sig) ==
  IF IsPcapNamed(sig) \/ IsGzipWrapped(sig) THEN "PCAP"
  ELSE IF IsPlainText(sig) THEN "Zeek"
  ELSE "unrecognized"

\* the same without the gzip-wrapped captures
AmendedClass(sig) ==
  IF IsPcapNamed(sig) THEN "PCAP"
  ELSE IF IsPlainText(sig) THEN "Zeek"
  ELSE "unrecognized"

\* the run has called the converter of class cls for its artifact, right
\* after creating the output directory
Converted(cls) ==
  /\ Len(calls) >= 2
  /\ calls[1] = MkdirCall
  /\ calls[2].op = "CONVERT"
  /\ calls[2].target = (IF cls = "PCAP" THEN "convert_pcap" ELSE "convert_zeek")
  /\ calls[2].file = <<Stem(args.file), IF cls = "PCAP" THEN "_filtered.sf" ELSE ".sf">>

\* the output directory could not be created: the run ended there, with no
\* converter call and no upload
NoDirectory ==
  /\ calls = <<MkdirCall>>
  /\ pc = "done" /\ exitCode = 1 /\ crashed

\* what a run does with an input of class cls: an unrecognized one ends the
\* run, a PCAP goes to convert_pcap and "<stem>_filtered.sf", a Zeek log to
\* convert_zeek and "<stem>.sf", and the upload sends that artifact.
\* reached(cls) says what holds once the conversion step has run.
Handled(cls, reached(_)) ==
  LET artifact == <<Stem(args.file), IF cls = "PCAP" THEN "_filtered.sf" ELSE ".sf">>
  IN  IF cls = "unrecognized"
        THEN detected = NoneVal /\ pc = "done" /\ exitCode = 1 /\ calls = << >>
        ELSE /\ detected = cls
             /\ pc # "convert" => reached(cls)
             /\ \A j \in DOMAIN calls :
                  /\ calls[j].op = "CONVERT" => (j = 2 /\ Converted(cls))
                  /\ IsUploadPost(calls[j]) =>
                       (j = 3 /\ Converted(cls) /\ calls[j].file = artifact)

\* the converter is always reached
HandledAs(cls) == Handled(cls, Converted)

\* the converter is reached unless the output directory cannot be created
ConvertedOrNoDirectory(cls) == Converted(cls) \/ NoDirectory
HandledWhereDirectory(cls) == Handled(cls, ConvertedOrNoDirectory)

\* C15 (as claimed): every pcap / pcapng signature, a gzip-wrapped capture
\* included, is handled as PCAP, exactly "ASCII text" and "JSON data" as
\* Zeek, everything else as unrecognized.
C15_ClassificationWithGzip ==
  file_type # << >> => HandledAs(ClaimedClass(file_type))

\* C15 (amended): as claimed, except that a gzip-wrapped capture is
\* unrecognized, and that a run whose output directory cannot be created
\* ends with exit 1 before any converter call or upload.
C15_Classification ==
  file_type # << >> => HandledWhereDirectory(AmendedClass(file_type))

C15_Witness ==
  /\ file_type = <<"p", "cap", "-", "ng", " capture file", " - version 1.0">>
  /\ detected = "PCAP"
  /\ Len(calls) >= 3 /\ IsUploadPost(calls[3])
  /\ calls[3].file = <<"capture", "_filtered.sf">>

\* a classified capture whose output directory already existed
C15_WitnessNoDirectory ==
  /\ detected = "PCAP" /\ NoDirectory

\* the amended classes with the converter always reached: refuted by the
\* run whose output directory already exists
C15_AlwaysConverted ==
  file_type # << >> => HandledAs(AmendedClass(file_type))

\* a Zeek log with a DNS log has been converted and uploaded
C15_WitnessZeek ==
  /\ file_type = <<"JSON data">> /\ args.dnsfile
  /\ Len(calls) >= 3 /\ calls[3].file = <<"capture", ".sf">>

\* --------------------------------------------------------------- C16
\* C16 (as claimed): in a categorization / summary run the output file
\* holds a payload, and the run exits 0, only with a payload taken from a response
\* whose status was "generated" (lastResp is the response data came from,
\* the first GET's or the last poll's); a run that exits 0 has left that
\* payload in the file as JSON with indent 4.
C16_WrittenOnlyWhenGenerated ==
  IsByID =>
    /\ (exitCode = 0 \/ outFile.state = "written") =>
         /\ GeneratedAnswer(lastResp)
         /\ data = lastResp.payload
    /\ exitCode = 0 =>
         outFile = [state |-> "written", format |-> "json indent=4",
                    content |-> JsonDump(data)]

\* --------------------------------------------------------------- C17
\* C17 (as claimed): a run that ends with exit code 1 has neither created
\* nor changed the output file.
C17_ExitOneLeavesFileAlone ==
  (pc = "done" /\ exitCode = 1) => outFile = Untouched

====
